---- MODULE Spec2Model ----
(***************************************************************************)
(* ReSite: matching of surplus-material listings against requests.         *)
(*                                                                         *)
(* The module models eight parts of the repository as state machines:      *)
(*   - the material-classify edge function and its client classifyWithAI   *)
(*     (global quota row, concurrent requests)                             *)
(*                                          Spec, CounterSpec, SeqSpec     *)
(*   - classifyListing, the browser-local heuristic path  HeurSpec         *)
(*   - getDistanceAndETA and its cache          DistSpec, FairDistSpec     *)
(*   - findMatchesForRequest                              MatchSpec        *)
(*   - getMatchesWithListings over a changing pool        HydrateSpec      *)
(*   - the CreateListing page and getAIQuotaInfo          IngestSpec       *)
(*   - defaultScoringFunction on its own                  ScoreSpec        *)
(*   - calculateCO2Savings on its own                     CarbonSpec       *)
(*                                                                         *)
(* Numbers: scores and confidences are kept in hundredths, distances in    *)
(* tenths of a kilometre, coordinates in 1e-5 degree, all as integers.     *)
(***************************************************************************)
EXTENDS Integers, Sequences, FiniteSets, TLC

VARIABLES
    quotaCount,     \* ai_classification_quota.count of the row 'global'
    quotaMax,       \* ai_classification_quota.max_count of the row 'global'
    req,            \* the classifyWithAI / edge-function requests in flight
    vertexCalls,    \* history: requests sent to the external classifier
    faulted,        \* history: a quota update or a classifier call has failed
    localCount,     \* localStorage['resite_classification_count'] (0: absent)
    hcall,          \* the classifyListing call in progress
    mapsApiKey,     \* GOOGLE_MAPS_API_KEY is set
    distanceCache,  \* the Map distanceCache: cache key -> DistanceResult
    dcall,          \* the getDistanceAndETA calls in progress
    activeListings, \* ids of the active listings, newest first
    currentScoringFunction, \* the installed scoring function
    swaps,          \* how many times the scoring function was replaced
    mcall,          \* the findMatchesForRequest call in progress
    hydrate,        \* the getMatchesWithListings call in progress
    aiQuota,        \* CreateListing's state aiQuota: the quota snapshot
    ingest,         \* the CreateListing page and its handleSubmit
    listingDoc,     \* the listing document handleSubmit has created
    scoring,        \* one application of defaultScoringFunction
    carbon          \* one application of calculateCO2Savings

quotaVars == <<quotaCount, quotaMax, req, vertexCalls, faulted>>
heurVars == <<localCount, hcall>>
distVars == <<mapsApiKey, distanceCache, dcall>>
matchVars == <<activeListings, currentScoringFunction, swaps, mcall, hydrate>>
ingestVars == <<aiQuota, ingest, listingDoc>>
scoreVars == <<scoring, carbon>>

vars == <<quotaCount, quotaMax, req, vertexCalls, faulted, localCount, hcall,
          mapsApiKey, distanceCache, dcall,
          activeListings, currentScoringFunction, swaps, mcall, hydrate,
          aiQuota, ingest, listingDoc, scoring, carbon>>

\* what the actions of one part leave alone
notQuota == <<heurVars, distVars, matchVars, ingestVars, scoreVars>>
notHeur == <<quotaVars, distVars, matchVars, ingestVars, scoreVars>>
notDist == <<quotaVars, heurVars, matchVars, ingestVars, scoreVars>>
notMatch == <<quotaVars, heurVars, distVars, ingestVars, scoreVars>>
notIngest == <<heurVars, distVars, matchVars, scoreVars>>
notScore == <<quotaVars, heurVars, distVars, matchVars, ingestVars>>

(***************************************************************************)
(* Bounds of the model.                                                    *)
(***************************************************************************)
MaxInFlight == 2    \* classification requests in flight at one time (k)
MaxQuota == 2       \* largest max_count a run starts with
MaxCalls == 4       \* no new request is accepted after this many calls
MaxDistCalls == 2   \* getDistanceAndETA calls in progress at one time
MaxListings == 19   \* listings in the database
MaxSwaps == 2       \* replacements of the scoring function
MaxDepartures == 1  \* listings that leave the active status during a run
MaxQuantitySteps == 4   \* quantities scored: 5, 10, ... tonnes
MaxDistanceSteps == 3   \* distances of a carbon estimate: 0, 68.6, ... km

Null == <<>>
NoValue == "undefined"

MATERIAL_TYPES == {"steel_beam", "rebar", "concrete", "aggregates", "timber"}

Slots == 1..MaxInFlight

(***************************************************************************)
(* The material-classify edge function.                                    *)
(***************************************************************************)

\* a check that lets every request through
QuotaNeverExhausted(count, max) == FALSE

\* quotaData.count >= quotaData.max_count
QuotaExhaustedOffByOne(count, max) == count > max
QuotaExhausted(count, max) == count >= max

\* Math.max(0, Math.min(1, parsed.confidence || 0.5)), in hundredths
ClampConfidence(c) ==
    LET given == IF c = 0 THEN 50 ELSE c
        low == IF given < 100 THEN given ELSE 100
    IN  IF low > 0 THEN low ELSE 0

\* the object classifyWithVertexAI returns for a parsed answer
VertexResult(label, confidence, userMaterialType) ==
    [materialType |-> IF label \in MATERIAL_TYPES THEN label ELSE userMaterialType,
     confidence |-> ClampConfidence(confidence)]

IdleRequest ==
    [pc |-> "idle", listingClassified |-> FALSE, userMaterialType |-> NoValue,
     exhaustedAtStart |-> FALSE, readCount |-> 0, label |-> NoValue,
     called |-> FALSE, wrote |-> FALSE, status |-> 0, body |-> Null, ret |-> Null]

\* the listings handed to classifyWithAI: the declared material, and whether
\* the listing already carries aiVersion
ListingInputs == {<<"concrete", FALSE>>, <<"timber", TRUE>>}

\* what the external classifier answers: an error, or a label with a confidence
VertexAnswers == {<<"steel_beam", 150>>, <<"rebar", 90>>, <<"plastic", 0>>}
VertexFailures == {"http_error", "no_json"}

\* classifyWithAI: supabase.functions.invoke('material-classify', ...)
ClassifyWithAI(s, userMaterialType, classified) ==
    /\ req[s].pc = "idle"
    /\ vertexCalls < MaxCalls
    /\ req' = [req EXCEPT ![s] =
                 [IdleRequest EXCEPT !.pc = "invoked",
                                     !.listingClassified = classified,
                                     !.userMaterialType = userMaterialType,
                                     !.exhaustedAtStart =
                                         (quotaCount >= quotaMax)]]
    /\ UNCHANGED <<quotaCount, quotaMax, vertexCalls, faulted>>
    /\ UNCHANGED notQuota

\* the invocation never reaches the function: invoke yields { error }
InvokeUnreachable(s) ==
    /\ req[s].pc = "invoked"
    /\ req' = [req EXCEPT ![s].pc = "returned", ![s].ret = Null]
    /\ UNCHANGED <<quotaCount, quotaMax, vertexCalls, faulted>>
    /\ UNCHANGED notQuota

\* serve: configuration, the quota select and the check on its snapshot
ReadQuota(s, outcome) ==
    /\ req[s].pc = "invoked"
    /\ req' = [req EXCEPT ![s] =
         IF outcome # "ok"
         THEN [@ EXCEPT !.pc = "responded", !.status = 500,
                        !.body = [error |-> "Service temporarily unavailable"]]
         ELSE IF QuotaExhausted(quotaCount, quotaMax)
         THEN [@ EXCEPT !.pc = "responded", !.status = 429,
                        !.body = [error |-> "Service quota exceeded. Please try again later."]]
         ELSE [@ EXCEPT !.pc = "checked", !.readCount = quotaCount]]
    /\ UNCHANGED <<quotaCount, quotaMax, vertexCalls, faulted>>
    /\ UNCHANGED notQuota

\* getGoogleAccessToken
TokenExchange(s, ok) ==
    /\ req[s].pc = "checked"
    /\ req' = [req EXCEPT ![s] =
         IF ok THEN [@ EXCEPT !.pc = "tokened"]
         ELSE [@ EXCEPT !.pc = "responded", !.status = 500,
                        !.body = [error |-> "Service temporarily unavailable"]]]
    /\ UNCHANGED <<quotaCount, quotaMax, vertexCalls, faulted>>
    /\ UNCHANGED notQuota

\* a function that counts the failed call as well
VertexFailCounted(s, failure) ==
    /\ req[s].pc = "tokened"
    /\ vertexCalls' = vertexCalls + 1
    /\ quotaCount' = req[s].readCount + 1
    /\ req' = [req EXCEPT ![s].pc = "responded", ![s].called = TRUE,
                          ![s].wrote = TRUE, ![s].status = 500,
                          ![s].body = [error |-> "Classification request failed"]]
    /\ faulted' = TRUE
    /\ UNCHANGED quotaMax
    /\ UNCHANGED notQuota

\* classifyWithVertexAI fails: non-2xx, or no JSON in the answer
VertexFail(s, failure) ==
    /\ req[s].pc = "tokened"
    /\ vertexCalls' = vertexCalls + 1
    /\ req' = [req EXCEPT ![s].pc = "responded", ![s].called = TRUE,
                          ![s].status = 500,
                          ![s].body = [error |-> "Classification request failed"]]
    /\ faulted' = TRUE
    /\ UNCHANGED <<quotaCount, quotaMax>>
    /\ UNCHANGED notQuota

\* classifyWithVertexAI answers, and serve assembles the result
VertexAnswer(s, label, confidence) ==
    /\ req[s].pc = "tokened"
    /\ vertexCalls' = vertexCalls + 1
    /\ LET v == VertexResult(label, confidence, req[s].userMaterialType)
       IN  req' = [req EXCEPT ![s].pc = "classified", ![s].called = TRUE,
                     ![s].label = label,
                     ![s].body = [aiMaterialType |-> v.materialType,
                                  aiConfidence |-> v.confidence,
                                  aiVersion |-> "v1.0_vertex_gemini_multimodal",
                                  remaining |-> quotaMax - req[s].readCount - 1,
                                  max |-> quotaMax]]
    /\ UNCHANGED <<quotaCount, quotaMax, faulted>>
    /\ UNCHANGED notQuota

\* update({ count: quotaData.count + 1 }); an error is only logged
IncrementQuota(s, ok) ==
    /\ req[s].pc = "classified"
    /\ quotaCount' = IF ok THEN req[s].readCount + 1 ELSE quotaCount
    /\ faulted' = (faulted \/ ~ok)
    /\ req' = [req EXCEPT ![s].pc = "counted", ![s].wrote = ok]
    /\ UNCHANGED <<quotaMax, vertexCalls>>
    /\ UNCHANGED notQuota

\* the event insert (its error is only logged) and the 200 response
Respond(s) ==
    /\ req[s].pc = "counted"
    /\ req' = [req EXCEPT ![s].pc = "responded", ![s].status = 200]
    /\ UNCHANGED <<quotaCount, quotaMax, vertexCalls, faulted>>
    /\ UNCHANGED notQuota

\* classifyWithAI after the invoke: null on error, else the result
ReturnToCaller(s) ==
    /\ req[s].pc = "responded"
    /\ req' = [req EXCEPT ![s].pc = "returned",
                 ![s].ret = IF req[s].status = 200 THEN req[s].body ELSE Null]
    /\ UNCHANGED <<quotaCount, quotaMax, vertexCalls, faulted>>
    /\ UNCHANGED notQuota

\* the caller has consumed the result; the slot is free again
Finish(s) ==
    /\ req[s].pc = "returned"
    /\ req' = [req EXCEPT ![s] = IdleRequest]
    /\ UNCHANGED <<quotaCount, quotaMax, vertexCalls, faulted>>
    /\ UNCHANGED notQuota

(***************************************************************************)
(* classifyListing: the heuristic classifier and its browser-local quota.  *)
(***************************************************************************)

MAX_DEMO_CLASSIFICATIONS == 30
USE_GEMINI == FALSE

\* Object.entries(MATERIAL_KEYWORDS): the categories in insertion order
MaterialOrder == <<"steel_beam", "rebar", "concrete", "aggregates", "timber">>

\* MATERIAL_KEYWORDS, each keyword with keyword.split(' ').length
MATERIAL_KEYWORDS ==
    [steel_beam |->
        <<<<"steel beam", 2>>, <<"i-beam", 1>>, <<"h-beam", 1>>,
          <<"structural steel", 2>>, <<"steel girder", 2>>,
          <<"steel column", 2>>, <<"steel section", 2>>, <<"wide flange", 2>>,
          <<"universal beam", 2>>, <<"ipe", 1>>, <<"heb", 1>>, <<"hea", 1>>,
          <<"steel profile", 2>>, <<"rolled steel", 2>> >>,
     rebar |->
        <<<<"rebar", 1>>, <<"reinforcing bar", 2>>, <<"reinforcement bar", 2>>,
          <<"steel bar", 2>>, <<"deformed bar", 2>>, <<"reinforcing steel", 2>>,
          <<"reinforcement steel", 2>>, <<"tmt bar", 2>>, <<"tmt steel", 2>>,
          <<"rebars", 1>>, <<"steel rod", 2>>, <<"bar reinforcement", 2>> >>,
     concrete |->
        <<<<"concrete", 1>>, <<"cement", 1>>, <<"ready mix", 2>>,
          <<"readymix", 1>>, <<"precast", 1>>, <<"concrete block", 2>>,
          <<"concrete slab", 2>>, <<"concrete panel", 2>>, <<"rcc", 1>>,
          <<"reinforced concrete", 2>>, <<"concrete pile", 2>>,
          <<"concrete element", 2>> >>,
     aggregates |->
        <<<<"aggregate", 1>>, <<"gravel", 1>>, <<"sand", 1>>,
          <<"crushed stone", 2>>, <<"ballast", 1>>, <<"crushed rock", 2>>,
          <<"stone chips", 2>>, <<"coarse aggregate", 2>>,
          <<"fine aggregate", 2>>, <<"fill material", 2>>, <<"granular", 1>>,
          <<"roadbase", 1>>, <<"sub-base", 1>> >>,
     timber |->
        <<<<"timber", 1>>, <<"wood", 1>>, <<"lumber", 1>>, <<"plywood", 1>>,
          <<"wooden beam", 2>>, <<"wooden plank", 2>>, <<"hardwood", 1>>,
          <<"softwood", 1>>, <<"treated wood", 2>>, <<"formwork timber", 2>>,
          <<"scaffolding wood", 2>>, <<"wooden pole", 2>> >>]

\* the keywords of one category found in the text: searchText.includes(keyword)
MatchedKeywords(material, text) ==
    LET kws == MATERIAL_KEYWORDS[material]
    IN  {i \in 1..Len(kws) : kws[i][1] \in text}

RECURSIVE SumWeights(_, _)
SumWeights(kws, indexes) ==
    IF indexes = {} THEN 0
    ELSE LET i == CHOOSE j \in indexes : TRUE
         IN  kws[i][2] + SumWeights(kws, indexes \ {i})

\* the score one category collects
KeywordScore(material, text) ==
    SumWeights(MATERIAL_KEYWORDS[material], MatchedKeywords(material, text))

\* a loop in which a later category also replaces the best on an equal score
RECURSIVE LastBestMatch(_, _, _)
LastBestMatch(i, best, listing) ==
    IF i > Len(MaterialOrder) THEN best
    ELSE LET material == MaterialOrder[i]
             score == KeywordScore(material, listing.text)
         IN  IF score >= best.bestScore /\ score > 0
             THEN LastBestMatch(i + 1,
                     [bestMatch |-> material, bestScore |-> score,
                      matched |-> Cardinality(MatchedKeywords(material, listing.text))],
                     listing)
             ELSE LastBestMatch(i + 1, best, listing)

\* the loop over the categories: a later category replaces the best only with
\* a strictly greater score
RECURSIVE BestMatch(_, _, _)
BestMatch(i, best, listing) ==
    IF i > Len(MaterialOrder) THEN best
    ELSE LET material == MaterialOrder[i]
             score == KeywordScore(material, listing.text)
         IN  IF score > best.bestScore
             THEN BestMatch(i + 1,
                     [bestMatch |-> material, bestScore |-> score,
                      matched |-> Cardinality(MatchedKeywords(material, listing.text))],
                     listing)
             ELSE BestMatch(i + 1, best, listing)

\* the boost without its cap
UncappedBoost(confidence) == confidence + 10

\* Math.min(0.9, confidence + 0.1)
BoostConfidence(confidence) ==
    IF confidence + 10 < 90 THEN confidence + 10 ELSE 90

\* classifyHeuristic; the confidence in hundredths
classifyHeuristic(listing) ==
    LET best == BestMatch(1, [bestMatch |-> listing.materialType, bestScore |-> 0,
                              matched |-> 0], listing)
        banded == IF best.bestScore = 0 THEN 30
                  ELSE IF best.matched >= 3 THEN 85
                  ELSE IF best.matched >= 2 THEN 70
                  ELSE 50
        boosted == IF best.bestMatch = listing.materialType /\ best.bestScore > 0
                   THEN BoostConfidence(banded)
                   ELSE banded
    IN  [aiMaterialType |-> best.bestMatch, aiConfidence |-> boosted,
         aiVersion |-> "v0.1_heuristic"]

\* classifyWithGemini: the placeholder, the heuristic under another version
classifyWithGemini(listing) ==
    [classifyHeuristic(listing) EXCEPT !.aiVersion = "v0.1_gemini_placeholder"]

\* getClassificationCount: 0 when localStorage cannot be read
getClassificationCount(canRead) == IF canRead THEN localCount ELSE 0

\* isClassificationQuotaExhausted
NeverExhausted(canRead) == FALSE
isClassificationQuotaExhausted(canRead) ==
    getClassificationCount(canRead) >= MAX_DEMO_CLASSIFICATIONS

IdleHeurCall ==
    [pc |-> "idle", listing |-> NoValue, force |-> FALSE, seen |-> 0,
     before |-> 0, ret |-> Null]

\* the listings handed to classifyListing; text is the set of keywords that
\* occur in the lower-cased title and description
HeurListings ==
    {[materialType |-> "concrete", aiVersion |-> NoValue, text |-> {}],
     [materialType |-> "rebar", aiVersion |-> NoValue,
      text |-> {"i-beam", "structural steel", "steel column"}],
     [materialType |-> "timber", aiVersion |-> NoValue, text |-> {"gravel", "wood"}],
     [materialType |-> "concrete", aiVersion |-> "v0.1_heuristic",
      text |-> {"concrete", "concrete slab"}],
     [materialType |-> "aggregates", aiVersion |-> NoValue, text |-> {"sand"}],
     [materialType |-> "steel_beam", aiVersion |-> NoValue,
      text |-> {"cement", "precast"}],
     [materialType |-> "timber", aiVersion |-> NoValue,
      text |-> {"timber", "wood", "plywood"}],
     [materialType |-> "concrete", aiVersion |-> NoValue,
      text |-> {"timber", "wood", "lumber", "hardwood"}],
     [materialType |-> "timber", aiVersion |-> NoValue,
      text |-> {"crushed stone", "crushed rock", "timber", "wood", "lumber"}]}

\* classifyListing up to its await of logClassificationEvent
ClassifyListing(listing, forceReclassify, canRead, canWrite) ==
    /\ hcall.pc = "idle"
    /\ LET called == [IdleHeurCall EXCEPT !.listing = listing,
                         !.force = forceReclassify,
                         !.seen = getClassificationCount(canRead),
                         !.before = localCount]
       IN  IF listing.aiVersion # NoValue /\ ~forceReclassify
           THEN /\ hcall' = [called EXCEPT !.pc = "returned", !.ret = Null]
                /\ UNCHANGED localCount
           ELSE IF isClassificationQuotaExhausted(canRead)
           THEN /\ hcall' = [called EXCEPT !.pc = "returned", !.ret = Null]
                /\ UNCHANGED localCount
           ELSE /\ hcall' = [called EXCEPT !.pc = "logging",
                               !.ret = IF USE_GEMINI THEN classifyWithGemini(listing)
                                       ELSE classifyHeuristic(listing)]
                \* incrementClassificationCount
                /\ localCount' = IF canWrite
                                 THEN getClassificationCount(canRead) + 1
                                 ELSE localCount
    /\ UNCHANGED notHeur

\* logClassificationEvent settles (it catches its own errors); the result
\* is returned
ClassificationLogged ==
    /\ hcall.pc = "logging"
    /\ hcall' = [hcall EXCEPT !.pc = "returned"]
    /\ UNCHANGED localCount
    /\ UNCHANGED notHeur

\* the caller has consumed the result
HeurFinish ==
    /\ hcall.pc = "returned"
    /\ hcall' = IdleHeurCall
    /\ UNCHANGED localCount
    /\ UNCHANGED notHeur

(***************************************************************************)
(* mapsService: haversine distance, getDistanceAndETA and its cache.       *)
(*                                                                         *)
(* A Location is [latitude, longitude] in units of 1e-5 degree.  The       *)
(* model's locations lie on one meridian, where the haversine formula      *)
(* gives R * |dLat|: 6371 km * pi / 180 = 111.2 km for one degree.         *)
(***************************************************************************)

\* stands for the JavaScript number NaN in a distance or a duration
NaN == 0 - 1

Abs(x) == IF x < 0 THEN 0 - x ELSE x

\* Math.round(n / d) for d > 0: the nearest integer, a half rounded up
RoundDiv(n, d) == (2 * n + d) \div (2 * d)

\* calculateDistanceHaversine, in tenths of a kilometre:
\* Math.round(distance * 10) / 10
calculateDistanceHaversine(loc1, loc2) ==
    RoundDiv(Abs(loc2.latitude - loc1.latitude) * 1112, 100000)

\* estimateETAFromDistance: Math.round((distanceKm / 50) * 60) minutes
estimateETAFromDistance(distanceKm) == RoundDiv(distanceKm * 60, 50 * 10)

\* the haversine estimate both getDistanceAndETA and getBatchDistances build
HaversineEstimate(origin, destination) ==
    LET distanceKm == calculateDistanceHaversine(origin, destination)
    IN  [distanceKm |-> distanceKm,
         etaMinutes |-> estimateETAFromDistance(distanceKm)]

\* Number.toFixed(4) of a coordinate, as a count of 1e-4 degree
ToFixed4(c) == IF c >= 0 THEN (c + 5) \div 10 ELSE 0 - ((5 - c) \div 10)

\* getCacheKey
getCacheKey(origin, destination) ==
    <<ToFixed4(origin.latitude), ToFixed4(origin.longitude),
      ToFixed4(destination.latitude), ToFixed4(destination.longitude)>>

\* the DistanceResult built from a Distance Matrix element: metres, seconds
ApiResult(element) ==
    [distanceKm |-> IF element.distance = NaN THEN NaN
                    ELSE RoundDiv(element.distance, 100),
     etaMinutes |-> IF element.duration = NaN THEN NaN
                    ELSE RoundDiv(element.duration, 60)]

Riyadh == [latitude |-> 2471360, longitude |-> 4667530]
RiyadhNear == [latitude |-> 2471364, longitude |-> 4667530]
Site == [latitude |-> 2516369, longitude |-> 4667530]

DistOrigins == {Riyadh, RiyadhNear}
DistDestinations == {Site}

\* what the Distance Matrix request can come to.  "malformed_value": both
\* statuses are OK and element.distance is an object without a numeric value
ApiFailures ==
    {"network_error", "http_error", "status_not_ok", "element_not_ok",
     "missing_fields", "malformed_value"}
ApiElements == {[outcome |-> "ok", distance |-> 61234, duration |-> 3130]}

DistSlots == 1..MaxDistCalls

IdleDistCall ==
    [pc |-> "idle", origin |-> NoValue, destination |-> NoValue,
     useApi |-> FALSE, fetched |-> FALSE, response |-> Null, ret |-> Null]

CachePut(cache, key, result) ==
    [k \in (DOMAIN cache) \cup {key} |-> IF k = key THEN result ELSE cache[k]]

\* getDistanceAndETA up to its await of fetch, or to its return
GetDistanceAndETA(s, origin, destination, useApi) ==
    /\ dcall[s].pc = "idle"
    /\ LET cacheKey == getCacheKey(origin, destination)
           called == [IdleDistCall EXCEPT !.origin = origin,
                         !.destination = destination, !.useApi = useApi]
       IN  IF cacheKey \in DOMAIN distanceCache
           THEN /\ dcall' = [dcall EXCEPT ![s] =
                      [called EXCEPT !.pc = "returned",
                                     !.ret = distanceCache[cacheKey]]]
                /\ UNCHANGED distanceCache
           ELSE IF useApi /\ mapsApiKey
           THEN /\ dcall' = [dcall EXCEPT ![s] =
                      [called EXCEPT !.pc = "fetching", !.fetched = TRUE]]
                /\ UNCHANGED distanceCache
           ELSE LET result == HaversineEstimate(origin, destination)
                IN  /\ dcall' = [dcall EXCEPT ![s] =
                          [called EXCEPT !.pc = "returned", !.ret = result]]
                    /\ distanceCache' = CachePut(distanceCache, cacheKey, result)
    /\ UNCHANGED mapsApiKey
    /\ UNCHANGED notDist

\* the Distance Matrix request settles: it fails, or it answers
ApiFails(s, failure) ==
    /\ dcall[s].pc = "fetching"
    /\ dcall' = [dcall EXCEPT ![s].pc = "settled",
                               ![s].response = [outcome |-> failure]]
    /\ UNCHANGED <<mapsApiKey, distanceCache>>
    /\ UNCHANGED notDist

ApiAnswers(s, element) ==
    /\ dcall[s].pc = "fetching"
    /\ dcall' = [dcall EXCEPT ![s].pc = "settled", ![s].response = element]
    /\ UNCHANGED <<mapsApiKey, distanceCache>>
    /\ UNCHANGED notDist

\* what the try block makes of the settled request: a DistanceResult, or
\* nothing (the fallback follows).  A missing element.distance throws inside
\* the try; a distance without a numeric value gives NaN
FromApi(response) ==
    IF response.outcome = "ok" THEN ApiResult(response)
    ELSE IF response.outcome = "malformed_value"
    THEN ApiResult([distance |-> NaN, duration |-> 3130])
    ELSE Null

\* getDistanceAndETA after the await: the API result, or the fallback
ResumeAfterFetch(s) ==
    /\ dcall[s].pc = "settled"
    /\ LET c == dcall[s]
           cacheKey == getCacheKey(c.origin, c.destination)
           api == FromApi(c.response)
           result == IF api # Null THEN api
                     ELSE HaversineEstimate(c.origin, c.destination)
       IN  /\ dcall' = [dcall EXCEPT ![s].pc = "returned", ![s].ret = result]
           /\ distanceCache' = CachePut(distanceCache, cacheKey, result)
    /\ UNCHANGED mapsApiKey
    /\ UNCHANGED notDist

\* clearDistanceCache
ClearDistanceCache ==
    /\ distanceCache # <<>>
    /\ distanceCache' = <<>>
    /\ UNCHANGED <<mapsApiKey, dcall>>
    /\ UNCHANGED notDist

\* the caller has consumed the result
DistFinish(s) ==
    /\ dcall[s].pc = "returned"
    /\ dcall' = [dcall EXCEPT ![s] = IdleDistCall]
    /\ UNCHANGED <<mapsApiKey, distanceCache>>
    /\ UNCHANGED notDist

(***************************************************************************)
(* matchService: scoring and findMatchesForRequest.                        *)
(*                                                                         *)
(* Scores, weights, condition and urgency scores are in hundredths,        *)
(* distances in tenths of a kilometre, quantities in tonnes.               *)
(***************************************************************************)

DEFAULT_SCORING_WEIGHTS ==
    [materialMatch |-> 40, quantityFit |-> 25, distance |-> 20,
     condition |-> 10, urgency |-> 5]

CONDITION_SCORES == [unused |-> 100, slightly_used |-> 80, used |-> 50]
URGENCY_SCORES == [high |-> 100, medium |-> 60, low |-> 20]

EMBODIED_CARBON_KG_PER_TONNE ==
    [steel_beam |-> 1850, rebar |-> 1720, concrete |-> 130,
     aggregates |-> 5, timber |-> 0 - 900]

MAX_MATCH_DISTANCE_KM == 200
OPTIMAL_DISTANCE_KM == 100

\* calculateQuantityScore without the floor Math.max(0.5, ratio)
QuantityScoreNoFloor(requestQty, listingQty) ==
    IF listingQty >= requestQty
    THEN <<requestQty, listingQty>> ELSE <<listingQty, requestQty>>

\* calculateQuantityScore, as the fraction <<numerator, denominator>>
calculateQuantityScore(requestQty, listingQty) ==
    IF listingQty >= requestQty
    THEN IF 2 * requestQty >= listingQty
         THEN <<requestQty, listingQty>> ELSE <<1, 2>>
    ELSE <<listingQty, requestQty>>

\* calculateDistanceScore, in 1/2000:
\* 1 - (distanceKm / 100) * 0.5 up to 100 km, and beyond it
\* 0.5 * (1 - (distanceKm - 100) / (200 - 100))
calculateDistanceScore(distanceKm) ==
    IF distanceKm <= 0 THEN 2000
    ELSE IF distanceKm >= MAX_MATCH_DISTANCE_KM * 10 THEN 0
    ELSE IF distanceKm <= OPTIMAL_DISTANCE_KM * 10
    THEN 2000 - (distanceKm * 1000) \div (OPTIMAL_DISTANCE_KM * 10)
    ELSE 1000 - ((distanceKm - OPTIMAL_DISTANCE_KM * 10) * 1000)
                    \div ((MAX_MATCH_DISTANCE_KM - OPTIMAL_DISTANCE_KM) * 10)

\* listing.aiMaterialType || listing.materialType
EffectiveMaterial(listing) ==
    IF listing.aiMaterialType # NoValue
    THEN listing.aiMaterialType ELSE listing.materialType

\* Math.min(1, ...) of the weighted sum num / den, in hundredths
Unclamped(num, den) == num

ClampToOne(num, den) == IF num > 100 * den THEN 100 * den ELSE num

\* defaultScoringFunction: totalScore, Math.round(totalScore * 100) / 100
defaultScoringFunction(request, listing, distanceKm, weights) ==
    IF request.materialType # EffectiveMaterial(listing) THEN 0
    ELSE LET q == calculateQuantityScore(request.quantityValue,
                                         listing.quantityValue)
             den == 2000 * q[2]
             num == weights.materialMatch * den
                    + weights.quantityFit * q[1] * 2000
                    + weights.distance * calculateDistanceScore(distanceKm) * q[2]
                    + weights.condition * CONDITION_SCORES[listing.condition] * 20 * q[2]
                    + weights.urgency * URGENCY_SCORES[request.urgency] * 20 * q[2]
         IN  RoundDiv(ClampToOne(num, den), den)

\* a scoring function installed with setScoringFunction: every candidate
\* scores 1, whatever its material, distance and quantity
constantScoringFunction(request, listing, distanceKm, weights) == 100

\* another one: it ranks the candidates the other way round, and scores a
\* listing of another material 1
invertedScoringFunction(request, listing, distanceKm, weights) ==
    100 - defaultScoringFunction(request, listing, distanceKm, weights)

ScoringFunctions == {"default", "constant", "inverted"}

ApplyScoringFunction(fn, request, listing, distanceKm, weights) ==
    IF fn = "default"
    THEN defaultScoringFunction(request, listing, distanceKm, weights)
    ELSE IF fn = "constant"
    THEN constantScoringFunction(request, listing, distanceKm, weights)
    ELSE invertedScoringFunction(request, listing, distanceKm, weights)

QuantityUnits == {"tonnes", "m3", "linear_m", "bags"}

\* convertToTonnes, in thousandths of a tonne.  A unit outside QuantityUnits
\* takes the default branch of the switch.
convertToTonnes(value, unit, materialType) ==
    LET densities == [steel_beam |-> 7850, rebar |-> 7850, concrete |-> 2400,
                      aggregates |-> 1600, timber |-> 600]
        linearWeights == [steel_beam |-> 25, rebar |-> 8, concrete |-> 100,
                          aggregates |-> 50, timber |-> 15]
    IN  IF unit = "tonnes" THEN value * 1000
        ELSE IF unit = "m3" THEN value * densities[materialType]
        ELSE IF unit = "linear_m" THEN value * linearWeights[materialType]
        ELSE IF unit = "bags" THEN value * 50
        ELSE value * 1000

\* the net saving of one tonne carried distanceKm, in 1/10000 kg:
\* |embodiedCarbon| * 0.85 - distanceKm * 0.062
NetSavingsPerTonne(materialType, distanceKm) ==
    Abs(EMBODIED_CARBON_KG_PER_TONNE[materialType]) * 8500 - distanceKm * 62

\* calculateCO2Savings without Math.max(0, ...)
NoFloorAtZero(kg) == kg

\* Math.max(0, kg)
FloorAtZero(kg) == IF kg < 0 THEN 0 ELSE kg

\* calculateCO2Savings, in kg.  Math.round(tonnes * perTonne) is computed
\* exactly: the product of thousandths of a tonne and 1/10000 kg per tonne
\* is split so that no intermediate exceeds 32 bits.
calculateCO2Savings(listing, distanceKm) ==
    LET tonnes == convertToTonnes(listing.quantityValue, listing.quantityUnit,
                                  listing.materialType)
        perTonne == NetSavingsPerTonne(listing.materialType, distanceKm)
        high == tonnes * (perTonne \div 10000)
        low == tonnes * (perTonne % 10000)
        rounded == (high + (low + 5000000) \div 10000) \div 1000
    IN  FloorAtZero(rounded)

DistanceFirstWeights ==
    [materialMatch |-> 20, quantityFit |-> 20, distance |-> 50,
     condition |-> 5, urgency |-> 5]

\* weights that sum to 1.01
RoundedUpWeights ==
    [materialMatch |-> 41, quantityFit |-> 25, distance |-> 20,
     condition |-> 10, urgency |-> 5]

\* the inputs of one application of defaultScoringFunction
ScoredQuantities == {5 * k : k \in 1..MaxQuantitySteps}
ScoredDistances == {0, 1, 500, 999, 1000, 1001, 1500, 1999, 2000, 2335}
ScoredWeights == {DEFAULT_SCORING_WEIGHTS, DistanceFirstWeights, RoundedUpWeights}

UnscoredPair ==
    [pc |-> "idle", request |-> Null, listing |-> Null, distanceKm |-> 0,
     weights |-> Null, totalScore |-> 0]

\* defaultScoringFunction(request, listing, distanceKm, weights)
ApplyDefaultScoring ==
    /\ scoring.pc = "drawn"
    /\ scoring' = [scoring EXCEPT !.pc = "scored",
                      !.totalScore =
                          defaultScoringFunction(scoring.request, scoring.listing,
                                                 scoring.distanceKm, scoring.weights)]
    /\ UNCHANGED <<carbon, notScore>>

\* the inputs of one application of calculateCO2Savings: aggregates stop
\* saving carbon beyond 68.5 km, concrete beyond 1782 km
CarbonQuantities == {1} \cup ScoredQuantities
CarbonDistances ==
    {0, 17823} \cup {686 + 1000 * (k - 1) : k \in 1..MaxDistanceSteps}

NoEstimate ==
    [pc |-> "idle", listing |-> Null, distanceKm |-> 0, co2SavedKg |-> 0]

\* calculateCO2Savings(listing, distanceKm)
ApplyCO2Savings ==
    /\ carbon.pc = "drawn"
    /\ carbon' = [carbon EXCEPT !.pc = "estimated",
                     !.co2SavedKg =
                         calculateCO2Savings(carbon.listing, carbon.distanceKm)]
    /\ UNCHANGED <<scoring, notScore>>

\* the listings table.  1 has no location, 2 belongs to the requester's
\* organisation, 3 is timber, 4 lies 233.5 km away, 5 is declared concrete
\* and classified timber, 6 is declared timber and classified concrete,
\* 7 lies 200.0 km away; the others are concrete at 0 to 163 km
Listing(id) ==
    [id |-> id,
     organisationId |-> IF id = 2 THEN "orgA"
                        ELSE IF id % 2 = 0 THEN "orgB" ELSE "orgC",
     materialType |-> IF id \in {3, 6} THEN "timber" ELSE "concrete",
     aiMaterialType |-> IF id = 5 THEN "timber"
                        ELSE IF id = 6 \/ id % 4 = 0 THEN "concrete"
                        ELSE NoValue,
     quantityValue |-> IF id <= 7 THEN 10 ELSE ((id * 7) % 11) * 2 + 2,
     quantityUnit |-> "tonnes",
     condition |-> IF id % 3 = 0 THEN "unused"
                   ELSE IF id % 3 = 1 THEN "slightly_used" ELSE "used",
     location |-> IF id = 1 THEN Null
                  ELSE [latitude |-> Riyadh.latitude +
                                       (IF id = 4 THEN 210000
                                        ELSE IF id = 7 THEN 179856
                                        ELSE ((id * 5) % 8) * 21000),
                        longitude |-> Riyadh.longitude]]

\* getAllActiveListings of a table holding the listings lo..hi
ActivePool(lo, hi) ==
    IF hi < lo THEN <<>> ELSE [k \in 1..(hi - lo + 1) |-> hi - k + 1]

ConcreteRequest ==
    [id |-> "r1", organisationId |-> "orgA", materialType |-> "concrete",
     quantityValue |-> 10, urgency |-> "high", location |-> Riyadh]
TimberRequest ==
    [id |-> "r2", organisationId |-> "orgB", materialType |-> "timber",
     quantityValue |-> 4, urgency |-> "low", location |-> RiyadhNear]

\* weights no validation would let through: the distance counts against
NegativeWeights ==
    [materialMatch |-> 60, quantityFit |-> 25, distance |-> 0 - 20,
     condition |-> 10, urgency |-> 5]

\* a minScore the caller leaves out (weights left out are Null)
NotSupplied == 0 - 1
DEFAULT_MIN_SCORE == 30

\* the calls made: request, weights, minScore
MatchInputs ==
    {<<ConcreteRequest, Null, NotSupplied>>,
     <<ConcreteRequest, DistanceFirstWeights, 80>>,
     <<ConcreteRequest, NegativeWeights, 50>>,
     <<TimberRequest, DEFAULT_SCORING_WEIGHTS, 30>>}

IdleMatchCall ==
    [pc |-> "idle", request |-> Null, weights |-> Null, minScore |-> 0,
     minScoreArg |-> NotSupplied,
     candidates |-> <<>>, distances |-> <<>>, i |-> 0, matches |-> <<>>,
     fns |-> {}, logFailed |-> FALSE, ret |-> <<>>, error |-> NoValue]

\* the filter of findMatchesForRequest: another organisation's listing of
\* the requested material
DeclaredMaterialCandidate(request, listing) ==
    /\ listing.organisationId # request.organisationId
    /\ listing.materialType = request.materialType

OrganisationOnlyCandidate(request, listing) ==
    listing.organisationId # request.organisationId

IsCandidate(request, listing) ==
    /\ listing.organisationId # request.organisationId
    /\ EffectiveMaterial(listing) = request.materialType

RECURSIVE FilterCandidates(_, _)
FilterCandidates(request, ids) ==
    IF ids = <<>> THEN <<>>
    ELSE LET rest == FilterCandidates(request, Tail(ids))
         IN  IF IsCandidate(request, Listing(Head(ids)))
             THEN <<Head(ids)>> \o rest ELSE rest

\* getBatchDistances; reading the latitude of a missing location throws
BatchThrows(destinations) ==
    \E k \in 1..Len(destinations) : destinations[k] = Null

\* a batch form that answers from the single-pair cache where it can
CachedBatchDistances(origin, destinations) ==
    [k \in 1..Len(destinations) |->
        IF getCacheKey(origin, destinations[k]) \in DOMAIN distanceCache
        THEN distanceCache[getCacheKey(origin, destinations[k])]
        ELSE HaversineEstimate(origin, destinations[k])]

getBatchDistances(origin, destinations) ==
    [k \in 1..Len(destinations) |-> HaversineEstimate(origin, destinations[k])]

\* the "skip if too far" test of the loop
NeverTooFar(distanceKm) == FALSE

TooFar(distanceKm) == distanceKm > MAX_MATCH_DISTANCE_KM * 10

\* the "skip low-quality matches" test of the loop
NeverBelowMinScore(totalScore, minScore) == FALSE

BelowMinScore(totalScore, minScore) == totalScore < minScore

\* the loop body's two tests on candidate k, under scoring function fn
Retained(c, k, fn) ==
    /\ ~TooFar(c.distances[k].distanceKm)
    /\ ~BelowMinScore(
           ApplyScoringFunction(fn, c.request, Listing(c.candidates[k]),
                                c.distances[k].distanceKm, c.weights),
           c.minScore)

\* the MatchResult pushed for candidate k
MatchResult(c, k, fn) ==
    LET listing == Listing(c.candidates[k])
        distanceKm == c.distances[k].distanceKm
    IN  [listingId |-> listing.id,
         score |-> ApplyScoringFunction(fn, c.request, listing, distanceKm,
                                        c.weights),
         distanceKm |-> distanceKm,
         co2SavedKg |-> calculateCO2Savings(listing, distanceKm),
         scoredBy |-> fn]

\* the matches once logMatchEvent has settled, and here with the match
\* dropped when its event was not written
DropUnloggedMatch(matches, logged) ==
    IF logged THEN matches ELSE SubSeq(matches, 1, Len(matches) - 1)

AfterLogMatchEvent(matches, logged) == matches

\* matches.sort((a, b) => b.score - a.score): stable, descending
InsertByScore(sorted, m) ==
    LET k == Cardinality({j \in 1..Len(sorted) : sorted[j].score >= m.score})
    IN  SubSeq(sorted, 1, k) \o <<m>> \o SubSeq(sorted, k + 1, Len(sorted))

KeepInsertionOrder(matches) == matches

RECURSIVE SortByScoreDesc(_)
SortByScoreDesc(matches) ==
    IF matches = <<>> THEN <<>>
    ELSE InsertByScore(SortByScoreDesc(SubSeq(matches, 1, Len(matches) - 1)),
                       matches[Len(matches)])

\* matches.slice(0, 10)
TopTen(matches) ==
    SubSeq(matches, 1, IF Len(matches) < 10 THEN Len(matches) ELSE 10)

\* the loop from candidate from on: up to the await of logMatchEvent after
\* the next push, or through the sort and the slice to the return
\* fns and logFailed are history: the scoring functions the call has
\* applied, and whether a logMatchEvent of the call has failed
RunLoop(c, from, fn) ==
    LET R == {k \in from..Len(c.candidates) : Retained(c, k, fn)}
        scored == IF \E k \in from..Len(c.candidates) :
                        ~TooFar(c.distances[k].distanceKm)
                  THEN c.fns \cup {fn} ELSE c.fns
    IN  IF R = {}
        THEN [c EXCEPT !.pc = "returned", !.i = Len(c.candidates) + 1,
                       !.fns = scored,
                       !.ret = TopTen(SortByScoreDesc(c.matches))]
        ELSE LET k == CHOOSE k \in R : \A other \in R : k <= other
             IN  [c EXCEPT !.pc = "logging", !.i = k + 1, !.fns = scored,
                           !.matches = Append(@, MatchResult(c, k, fn))]

\* the call's parameters with their defaults, at the first await
CalledMatch(request, weights, minScore) ==
    [IdleMatchCall EXCEPT !.pc = "fetching", !.request = request,
        !.weights = IF weights = Null
                    THEN DEFAULT_SCORING_WEIGHTS ELSE weights,
        !.minScoreArg = minScore,
        !.minScore = IF minScore = NotSupplied
                     THEN DEFAULT_MIN_SCORE ELSE minScore]

\* findMatchesForRequest up to its await of getAllActiveListings
FindMatchesForRequest(request, weights, minScore) ==
    /\ mcall.pc = "idle"
    /\ mcall' = CalledMatch(request, weights, minScore)
    /\ UNCHANGED <<activeListings, currentScoringFunction, swaps, hydrate>>
    /\ UNCHANGED notMatch

\* getAllActiveListings rejects: the call rejects with it
FetchFails ==
    /\ mcall.pc = "fetching"
    /\ mcall' = [mcall EXCEPT !.pc = "rejected", !.error = "FirestoreError"]
    /\ UNCHANGED <<activeListings, currentScoringFunction, swaps, hydrate>>
    /\ UNCHANGED notMatch

\* the listings arrive: filter, batch distances, and the loop
ListingsFetched ==
    /\ mcall.pc = "fetching"
    /\ LET candidates == FilterCandidates(mcall.request, activeListings)
           destinations == [k \in 1..Len(candidates) |->
                               Listing(candidates[k]).location]
           c == [mcall EXCEPT !.candidates = candidates]
       IN  IF candidates = <<>>
           THEN mcall' = [c EXCEPT !.pc = "returned", !.ret = <<>>]
           ELSE IF BatchThrows(destinations)
           THEN mcall' = [c EXCEPT !.pc = "rejected", !.error = "TypeError"]
           ELSE mcall' = RunLoop(
                    [c EXCEPT !.distances =
                        getBatchDistances(mcall.request.location, destinations)],
                    1, currentScoringFunction)
    /\ UNCHANGED <<activeListings, currentScoringFunction, swaps, hydrate>>
    /\ UNCHANGED notMatch

\* logMatchEvent settles: it has written the event, or it has caught the
\* failure and resolved to null; the loop goes on
LogMatchEventDone(logged) ==
    /\ mcall.pc = "logging"
    /\ mcall' = RunLoop([mcall EXCEPT !.matches = AfterLogMatchEvent(@, logged),
                                      !.logFailed = @ \/ ~logged],
                        mcall.i, currentScoringFunction)
    /\ UNCHANGED <<activeListings, currentScoringFunction, swaps, hydrate>>
    /\ UNCHANGED notMatch

\* setScoringFunction
SetScoringFunction(fn) ==
    /\ swaps < MaxSwaps
    /\ fn # currentScoringFunction
    /\ fn # "default"
    /\ currentScoringFunction' = fn
    /\ swaps' = swaps + 1
    /\ UNCHANGED <<activeListings, mcall, hydrate>>
    /\ UNCHANGED notMatch

\* resetScoringFunction
ResetScoringFunction ==
    /\ swaps < MaxSwaps
    /\ currentScoringFunction # "default"
    /\ currentScoringFunction' = "default"
    /\ swaps' = swaps + 1
    /\ UNCHANGED <<activeListings, mcall, hydrate>>
    /\ UNCHANGED notMatch

\* the caller has consumed the result or the rejection
MatchFinish ==
    /\ mcall.pc \in {"returned", "rejected"}
    /\ mcall' = IdleMatchCall
    /\ UNCHANGED <<activeListings, currentScoringFunction, swaps, hydrate>>
    /\ UNCHANGED notMatch

(***************************************************************************)
(* matchService.getMatchesWithListings, and listings leaving the pool.     *)
(***************************************************************************)

\* listingMap.get(id) of an id the map does not hold: undefined
NoListing == 0

\* departed is history: the listings that have left the active status
IdleHydrate ==
    [pc |-> "idle", matches |-> <<>>, ret |-> <<>>, departed |-> {}]

\* matches.map(match => ({ ...match, listing: listingMap.get(match.listingId) }))
\* over the listings of the second read; a listing is stood for by its id
Hydrate(matches, pool) ==
    [k \in 1..Len(matches) |->
        [listingId |-> matches[k].listingId,
         listing |-> IF \E j \in 1..Len(pool) : pool[j] = matches[k].listingId
                     THEN matches[k].listingId ELSE NoListing]]

\* getMatchesWithListings up to the first await of its findMatchesForRequest
GetMatchesWithListings(request, weights) ==
    /\ hydrate.pc = "idle"
    /\ mcall.pc = "idle"
    /\ hydrate' = [hydrate EXCEPT !.pc = "matching"]
    /\ mcall' = CalledMatch(request, weights, NotSupplied)
    /\ UNCHANGED <<activeListings, currentScoringFunction, swaps>>
    /\ UNCHANGED notMatch

\* findMatchesForRequest settles: its rejection rejects the call, its
\* matches are kept and the second getAllActiveListings is awaited
MatchesSettled ==
    /\ hydrate.pc = "matching"
    /\ mcall.pc \in {"returned", "rejected"}
    /\ hydrate' = IF mcall.pc = "rejected"
                  THEN [hydrate EXCEPT !.pc = "rejected"]
                  ELSE [hydrate EXCEPT !.pc = "fetching", !.matches = mcall.ret]
    /\ mcall' = IdleMatchCall
    /\ UNCHANGED <<activeListings, currentScoringFunction, swaps>>
    /\ UNCHANGED notMatch

\* the second getAllActiveListings rejects
HydrateFetchFails ==
    /\ hydrate.pc = "fetching"
    /\ hydrate' = [hydrate EXCEPT !.pc = "rejected"]
    /\ UNCHANGED <<activeListings, currentScoringFunction, swaps, mcall>>
    /\ UNCHANGED notMatch

\* the second read arrives: the map by id, and the hydrated matches
HydrateListingsFetched ==
    /\ hydrate.pc = "fetching"
    /\ hydrate' = [hydrate EXCEPT !.pc = "returned",
                      !.ret = Hydrate(hydrate.matches, activeListings)]
    /\ UNCHANGED <<activeListings, currentScoringFunction, swaps, mcall>>
    /\ UNCHANGED notMatch

\* the caller has consumed the result or the rejection
HydrateFinish ==
    /\ hydrate.pc \in {"returned", "rejected"}
    /\ hydrate' = [IdleHydrate EXCEPT !.departed = hydrate.departed]
    /\ UNCHANGED <<activeListings, currentScoringFunction, swaps, mcall>>
    /\ UNCHANGED notMatch

\* updateListing(id, { status: 'reserved' }) by the listing's owner: the
\* listing leaves the result of getAllActiveListings
ListingLeavesActive(id) ==
    /\ Cardinality(hydrate.departed) < MaxDepartures
    /\ \E j \in 1..Len(activeListings) : activeListings[j] = id
    /\ activeListings' = SelectSeq(activeListings, LAMBDA other : other # id)
    /\ hydrate' = [hydrate EXCEPT !.departed = @ \cup {id}]
    /\ UNCHANGED <<currentScoringFunction, swaps, mcall>>
    /\ UNCHANGED notMatch

(***************************************************************************)
(* aiClassifierService.getAIQuotaInfo and the CreateListing page.          *)
(***************************************************************************)

\* getAIQuotaInfo with exhausted computed as count > max_count
getAIQuotaInfoOffByOne(readable, count, max) ==
    IF ~readable THEN [remaining |-> 0, max |-> 25, exhausted |-> TRUE]
    ELSE [remaining |-> IF max - count > 0 THEN max - count ELSE 0,
          max |-> max, exhausted |-> count > max]

\* getAIQuotaInfo: the select fails or throws, or it yields the row
getAIQuotaInfo(readable, count, max) ==
    IF ~readable THEN [remaining |-> 0, max |-> 25, exhausted |-> TRUE]
    ELSE [remaining |-> IF max - count > 0 THEN max - count ELSE 0,
          max |-> max, exhausted |-> count >= max]

\* the page as mounted: the form is idle, getAIQuotaInfo is under way
MountedPage ==
    [pc |-> "idle", quotaFetch |-> "pending", hasImage |-> FALSE,
     materialType |-> NoValue, step |-> "none", reported |-> "nothing"]

\* what handleSubmit reports once the classification step is over, and
\* here with the step's exceptions passed on to the outer catch
ClassificationStepPropagates(threw) == IF threw THEN "failure" ELSE "success"

\* the inner try/catch logs what the classification step throws; the
\* success toast follows either way
AfterClassificationStep(threw) == "success"

\* the slot of req the page's classifyWithAI call uses, and the slot of the
\* requests another client makes meanwhile
IngestSlot == 1
OtherSlot == 2

\* useEffect: getAIQuotaInfo().then(setAiQuota)
QuotaInfoLoaded(readable) ==
    /\ ingest.quotaFetch = "pending"
    /\ aiQuota' = getAIQuotaInfo(readable, quotaCount, quotaMax)
    /\ ingest' = [ingest EXCEPT !.quotaFetch =
                     IF readable THEN "loaded" ELSE "unreadable"]
    /\ UNCHANGED listingDoc
    /\ UNCHANGED quotaVars
    /\ UNCHANGED notIngest

\* handleSubmit up to its first await; without a user or an address it
\* returns with an error toast
HandleSubmit(valid, hasImage, materialType) ==
    /\ ingest.pc = "idle"
    /\ vertexCalls < MaxCalls
    /\ ingest' = IF ~valid THEN [ingest EXCEPT !.reported = "invalid"]
                 ELSE [ingest EXCEPT !.pc = IF hasImage THEN "uploading"
                                            ELSE "creating",
                                     !.hasImage = hasImage,
                                     !.materialType = materialType,
                                     !.step = "none",
                                     !.reported = "nothing"]
    /\ UNCHANGED <<aiQuota, listingDoc>>
    /\ UNCHANGED quotaVars
    /\ UNCHANGED notIngest

\* uploadListingImage resolves or rejects
ImageUploaded(ok) ==
    /\ ingest.pc = "uploading"
    /\ ingest' = IF ok THEN [ingest EXCEPT !.pc = "creating"]
                 ELSE [ingest EXCEPT !.pc = "done", !.reported = "failure"]
    /\ UNCHANGED <<aiQuota, listingDoc>>
    /\ UNCHANGED quotaVars
    /\ UNCHANGED notIngest

\* createListing resolves or rejects; then the test of the quota snapshot
ListingCreated(ok) ==
    /\ ingest.pc = "creating"
    /\ IF ~ok
       THEN /\ ingest' = [ingest EXCEPT !.pc = "done", !.reported = "failure"]
            /\ UNCHANGED listingDoc
       ELSE /\ listingDoc' = [materialType |-> ingest.materialType, ai |-> Null]
            /\ ingest' = IF aiQuota # Null /\ ~aiQuota.exhausted
                         THEN [ingest EXCEPT !.pc = "rereading"]
                         ELSE [ingest EXCEPT !.pc = "done",
                                             !.step = "skipped",
                                             !.reported = "success"]
    /\ UNCHANGED aiQuota
    /\ UNCHANGED quotaVars
    /\ UNCHANGED notIngest

\* getListing yields the listing, yields null, or rejects; with the listing
\* classifyWithAI is called
ListingReread(outcome) ==
    /\ ingest.pc = "rereading"
    /\ IF outcome = "found"
       THEN /\ req[IngestSlot].pc = "idle"
            /\ ingest' = [ingest EXCEPT !.pc = "classifying"]
            /\ req' = [req EXCEPT ![IngestSlot] =
                   [IdleRequest EXCEPT !.pc = "invoked",
                       !.userMaterialType = ingest.materialType,
                       !.exhaustedAtStart = (quotaCount >= quotaMax)]]
       ELSE /\ ingest' = [ingest EXCEPT !.pc = "done",
                              !.step = "reread_" \o outcome,
                              !.reported =
                                  AfterClassificationStep(outcome = "rejected")]
            /\ UNCHANGED req
    /\ UNCHANGED <<aiQuota, listingDoc>>
    /\ UNCHANGED <<quotaCount, quotaMax, vertexCalls, faulted>>
    /\ UNCHANGED notIngest

\* classifyWithAI has returned: null ends the step; a result is persisted
\* with updateListingAIFields, which resolves or rejects, and after it the
\* quota display is updated
ClassificationReturned(ok) ==
    /\ ingest.pc = "classifying"
    /\ req[IngestSlot].pc = "returned"
    /\ LET classificationResult == req[IngestSlot].ret
       IN  IF classificationResult = Null
           THEN /\ UNCHANGED <<aiQuota, listingDoc>>
                /\ ingest' = [ingest EXCEPT !.pc = "done", !.step = "null",
                                 !.reported = AfterClassificationStep(FALSE)]
           ELSE IF ~ok
           THEN /\ UNCHANGED <<aiQuota, listingDoc>>
                /\ ingest' = [ingest EXCEPT !.pc = "done",
                                 !.step = "persist_failed",
                                 !.reported = AfterClassificationStep(TRUE)]
           ELSE /\ ingest' = [ingest EXCEPT !.pc = "done",
                                 !.step = "persisted",
                                 !.reported = AfterClassificationStep(FALSE)]
                /\ listingDoc' = [listingDoc EXCEPT !.ai =
                      [aiMaterialType |-> classificationResult.aiMaterialType,
                       aiConfidence |-> classificationResult.aiConfidence,
                       aiVersion |-> classificationResult.aiVersion]]
                /\ aiQuota' = [remaining |-> classificationResult.remaining,
                               max |-> classificationResult.max,
                               exhausted |-> classificationResult.remaining <= 0]
    /\ req' = [req EXCEPT ![IngestSlot] = IdleRequest]
    /\ UNCHANGED <<quotaCount, quotaMax, vertexCalls, faulted>>
    /\ UNCHANGED notIngest

\* navigate('/dashboard/listings'); the page is opened again later.  After a
\* failure the page stays and the form can be submitted again
PageLeft ==
    /\ ingest.pc = "done"
    /\ IF ingest.reported = "success"
       THEN /\ ingest' = MountedPage
            /\ aiQuota' = Null
            /\ listingDoc' = Null
       ELSE /\ ingest' = [ingest EXCEPT !.pc = "idle"]
            /\ UNCHANGED <<aiQuota, listingDoc>>
    /\ UNCHANGED quotaVars
    /\ UNCHANGED notIngest

InFlight == {s \in Slots : req[s].pc \notin {"idle", "returned"}}

QuotaInit ==
    /\ quotaCount = 0
    /\ quotaMax \in 1..MaxQuota
    /\ req = [s \in Slots |-> IdleRequest]
    /\ vertexCalls = 0
    /\ faulted = FALSE

HeurIdle ==
    /\ localCount = 0
    /\ hcall = IdleHeurCall

DistIdle ==
    /\ mapsApiKey = TRUE
    /\ distanceCache = <<>>
    /\ dcall = [s \in DistSlots |-> IdleDistCall]

MatchIdle ==
    /\ activeListings = ActivePool(2, MaxListings)
    /\ currentScoringFunction = "default"
    /\ swaps = 0
    /\ mcall = IdleMatchCall
    /\ hydrate = IdleHydrate

IngestIdle ==
    /\ aiQuota = Null
    /\ ingest = MountedPage
    /\ listingDoc = Null

ScoreIdle == scoring = UnscoredPair /\ carbon = NoEstimate

Init ==
    QuotaInit /\ HeurIdle /\ DistIdle /\ MatchIdle /\ IngestIdle /\ ScoreIdle

Next ==
    \E s \in Slots :
        \/ \E l \in ListingInputs : ClassifyWithAI(s, l[1], l[2])
        \/ InvokeUnreachable(s)
        \/ \E o \in {"ok", "config_missing", "quota_error"} : ReadQuota(s, o)
        \/ \E ok \in BOOLEAN : TokenExchange(s, ok)
        \/ \E f \in VertexFailures : VertexFail(s, f)
        \/ \E a \in VertexAnswers : VertexAnswer(s, a[1], a[2])
        \/ \E ok \in BOOLEAN : IncrementQuota(s, ok)
        \/ Respond(s)
        \/ ReturnToCaller(s)
        \/ Finish(s)

Spec == Init /\ [][Next]_vars

\* the concurrent requests with one kind of listing and one classifier
\* answer: what the stored counter goes through does not depend on them
CounterNext ==
    \E s \in Slots :
        \/ ClassifyWithAI(s, "concrete", FALSE)
        \/ InvokeUnreachable(s)
        \/ \E o \in {"ok", "quota_error"} : ReadQuota(s, o)
        \/ \E ok \in BOOLEAN : TokenExchange(s, ok)
        \/ \E f \in VertexFailures : VertexFail(s, f)
        \/ VertexAnswer(s, "rebar", 90)
        \/ \E ok \in BOOLEAN : IncrementQuota(s, ok)
        \/ Respond(s)
        \/ ReturnToCaller(s)
        \/ Finish(s)

CounterSpec == Init /\ [][CounterNext]_vars

\* sequential execution: a request starts only when no other is in flight
SeqNext ==
    \E s \in Slots :
        \/ \E l \in ListingInputs :
              /\ \A t \in Slots : req[t].pc \in {"idle", "returned"}
              /\ ClassifyWithAI(s, l[1], l[2])
        \/ InvokeUnreachable(s)
        \/ \E o \in {"ok", "config_missing", "quota_error"} : ReadQuota(s, o)
        \/ \E ok \in BOOLEAN : TokenExchange(s, ok)
        \/ \E f \in VertexFailures : VertexFail(s, f)
        \/ \E a \in VertexAnswers : VertexAnswer(s, a[1], a[2])
        \/ \E ok \in BOOLEAN : IncrementQuota(s, ok)
        \/ Respond(s)
        \/ ReturnToCaller(s)
        \/ Finish(s)

SeqSpec == Init /\ [][SeqNext]_vars

\* the heuristic path, from any state of the global quota row
HeurInit ==
    /\ quotaMax \in 1..MaxQuota
    /\ quotaCount \in 0..quotaMax
    /\ req = [s \in Slots |-> IdleRequest]
    /\ vertexCalls = 0
    /\ faulted = FALSE
    /\ HeurIdle
    /\ DistIdle
    /\ MatchIdle
    /\ IngestIdle
    /\ ScoreIdle

HeurNext ==
    \/ \E l \in HeurListings, f \in BOOLEAN, r \in BOOLEAN, w \in BOOLEAN :
          ClassifyListing(l, f, r, w)
    \/ ClassificationLogged
    \/ HeurFinish

HeurSpec == HeurInit /\ [][HeurNext]_vars

\* the distance resolver
DistInit ==
    /\ QuotaInit
    /\ quotaMax = MaxQuota
    /\ HeurIdle
    /\ mapsApiKey \in BOOLEAN
    /\ distanceCache = <<>>
    /\ dcall = [s \in DistSlots |-> IdleDistCall]
    /\ MatchIdle
    /\ IngestIdle
    /\ ScoreIdle

DistNext ==
    \/ \E s \in DistSlots, o \in DistOrigins, d \in DistDestinations,
          useApi \in BOOLEAN : GetDistanceAndETA(s, o, d, useApi)
    \/ \E s \in DistSlots, f \in ApiFailures : ApiFails(s, f)
    \/ \E s \in DistSlots, e \in ApiElements : ApiAnswers(s, e)
    \/ \E s \in DistSlots : ResumeAfterFetch(s)
    \/ ClearDistanceCache
    \/ \E s \in DistSlots : DistFinish(s)

DistSpec == DistInit /\ [][DistNext]_vars

\* the event loop runs a continuation whose awaited request has settled;
\* nothing obliges the routing service to settle a request
FairDistSpec ==
    DistSpec /\ \A s \in DistSlots : WF_vars(ResumeAfterFetch(s))

\* the matching engine
MatchInit ==
    /\ quotaMax = MaxQuota
    /\ req = [s \in Slots |-> IdleRequest]
    /\ vertexCalls = 0
    /\ faulted = FALSE
    /\ HeurIdle
    /\ mapsApiKey = TRUE
    /\ \/ /\ quotaCount = 0
          /\ distanceCache = <<>>
       \/ /\ quotaCount = quotaMax
          /\ distanceCache =
                 CachePut(<<>>,
                          getCacheKey(Riyadh, Listing(MaxListings).location),
                          ApiResult([distance |-> 61234, duration |-> 3130]))
    /\ dcall = [s \in DistSlots |-> IdleDistCall]
    /\ \E lo \in {1, 2}, hi \in 0..MaxListings :
           activeListings = ActivePool(lo, hi)
    /\ currentScoringFunction = "default"
    /\ swaps = 0
    /\ mcall = IdleMatchCall
    /\ hydrate = IdleHydrate
    /\ IngestIdle
    /\ ScoreIdle

MatchNext ==
    \/ \E input \in MatchInputs :
           FindMatchesForRequest(input[1], input[2], input[3])
    \/ FetchFails
    \/ ListingsFetched
    \/ \E logged \in BOOLEAN : LogMatchEventDone(logged)
    \/ \E fn \in ScoringFunctions : SetScoringFunction(fn)
    \/ ResetScoringFunction
    \/ MatchFinish

MatchSpec == MatchInit /\ [][MatchNext]_vars

\* getMatchesWithListings while listings leave the active status
HydrateInit ==
    /\ QuotaInit
    /\ quotaMax = MaxQuota
    /\ HeurIdle
    /\ DistIdle
    /\ \E hi \in (MaxListings - 12)..(MaxListings - 10) :
           activeListings = ActivePool(2, hi)
    /\ currentScoringFunction = "default"
    /\ swaps = 0
    /\ mcall = IdleMatchCall
    /\ hydrate = IdleHydrate
    /\ IngestIdle
    /\ ScoreIdle

HydrateNext ==
    \/ \E request \in {ConcreteRequest, TimberRequest},
          weights \in {Null, DistanceFirstWeights} :
           GetMatchesWithListings(request, weights)
    \/ FetchFails
    \/ ListingsFetched
    \/ \E logged \in BOOLEAN : LogMatchEventDone(logged)
    \/ MatchesSettled
    \/ HydrateFetchFails
    \/ HydrateListingsFetched
    \/ HydrateFinish
    \/ \E id \in 1..MaxListings : ListingLeavesActive(id)

HydrateSpec == HydrateInit /\ [][HydrateNext]_vars

\* the CreateListing page, its classification request in slot IngestSlot,
\* and the requests of other clients in the other slots
IngestInit ==
    /\ quotaMax \in 1..MaxQuota
    /\ quotaCount \in 0..quotaMax
    /\ req = [s \in Slots |-> IdleRequest]
    /\ vertexCalls = 0
    /\ faulted = FALSE
    /\ HeurIdle
    /\ DistIdle
    /\ MatchIdle
    /\ IngestIdle
    /\ ScoreIdle

IngestNext ==
    \/ \E readable \in BOOLEAN : QuotaInfoLoaded(readable)
    \/ \E valid, hasImage \in BOOLEAN : HandleSubmit(valid, hasImage, "concrete")
    \/ \E ok \in BOOLEAN : ImageUploaded(ok)
    \/ \E ok \in BOOLEAN : ListingCreated(ok)
    \/ \E o \in {"found", "missing", "rejected"} : ListingReread(o)
    \/ \E ok \in BOOLEAN : ClassificationReturned(ok)
    \/ PageLeft
    \/ \E s \in {IngestSlot, OtherSlot} :
           \/ s # IngestSlot /\ ClassifyWithAI(s, "timber", FALSE)
           \/ InvokeUnreachable(s)
           \/ \E o \in {"ok", "config_missing", "quota_error"} : ReadQuota(s, o)
           \/ \E ok \in BOOLEAN : TokenExchange(s, ok)
           \/ \E f \in VertexFailures : VertexFail(s, f)
           \/ \E a \in VertexAnswers : VertexAnswer(s, a[1], a[2])
           \/ \E ok \in BOOLEAN : IncrementQuota(s, ok)
           \/ Respond(s)
           \/ ReturnToCaller(s)
           \/ s # IngestSlot /\ Finish(s)

IngestSpec == IngestInit /\ [][IngestNext]_vars

\* defaultScoringFunction on its own
ScoreInit ==
    /\ QuotaInit
    /\ quotaMax = MaxQuota
    /\ HeurIdle
    /\ DistIdle
    /\ MatchIdle
    /\ IngestIdle
    /\ \E requestQty, listingQty \in ScoredQuantities,
          distanceKm \in ScoredDistances, weights \in ScoredWeights,
          condition \in DOMAIN CONDITION_SCORES,
          urgency \in DOMAIN URGENCY_SCORES,
          aiMaterialType \in {NoValue, "concrete", "timber"} :
           scoring = [pc |-> "drawn",
                      request |-> [materialType |-> "concrete",
                                   quantityValue |-> requestQty,
                                   urgency |-> urgency],
                      listing |-> [materialType |-> "concrete",
                                   aiMaterialType |-> aiMaterialType,
                                   quantityValue |-> listingQty,
                                   condition |-> condition],
                      distanceKm |-> distanceKm, weights |-> weights,
                      totalScore |-> 0]
    /\ carbon = NoEstimate

ScoreNext == ApplyDefaultScoring

ScoreSpec == ScoreInit /\ [][ScoreNext]_vars

\* calculateCO2Savings on its own
CarbonInit ==
    /\ QuotaInit
    /\ quotaMax = MaxQuota
    /\ HeurIdle
    /\ DistIdle
    /\ MatchIdle
    /\ IngestIdle
    /\ scoring = UnscoredPair
    /\ \E materialType \in MATERIAL_TYPES,
          quantityValue \in CarbonQuantities,
          quantityUnit \in QuantityUnits \cup {"pieces"},
          distanceKm \in CarbonDistances :
           carbon = [pc |-> "drawn",
                     listing |-> [materialType |-> materialType,
                                  quantityValue |-> quantityValue,
                                  quantityUnit |-> quantityUnit],
                     distanceKm |-> distanceKm, co2SavedKg |-> 0]

CarbonNext == ApplyCO2Savings

CarbonSpec == CarbonInit /\ [][CarbonNext]_vars

(***************************************************************************)
(* Claims about the quota of the external classifier.                      *)
(***************************************************************************)

\* C1, state part: a request made when the stored count had reached max_count
\* calls no classifier, writes no count, and returns null
C1_RejectedAtStart ==
    \A s \in Slots :
        req[s].exhaustedAtStart =>
            /\ ~req[s].called
            /\ ~req[s].wrote
            /\ (req[s].pc = "returned" => req[s].ret = Null)

\* C1, step part: no step taken with count >= max_count calls the classifier
\* or changes the count
C1_NoStepSpends ==
    quotaCount >= quotaMax =>
        (quotaCount' = quotaCount /\ vertexCalls' = vertexCalls)

\* C1: in sequential execution, once count >= max_count every later
\* classification attempt returns null, calls no classifier backend and
\* leaves the counter unchanged
C1_ExhaustedQuotaRejects == [](C1_RejectedAtStart) /\ [][C1_NoStepSpends]_vars

\* a request made at an exhausted quota got the 429 answer and returned null
C1_Witness ==
    \E s \in Slots :
        /\ req[s].exhaustedAtStart
        /\ req[s].pc = "returned"
        /\ req[s].status = 429
        /\ req[s].ret = Null
        /\ quotaCount >= quotaMax

\* C2: with at most MaxInFlight requests in flight, the calls made to the
\* external classifier never exceed max_count + (MaxInFlight - 1); stated for
\* the runs in which no quota update and no classifier call failed
C2_MinorOvershoot ==
    ~faulted => vertexCalls <= quotaMax + (MaxInFlight - 1)

\* C9: a classification call on a listing that already carries aiVersion
\* returns null, calls no classifier backend and leaves the counter unchanged
C9_ClassifiedListingIsNoOp ==
    \A s \in Slots :
        req[s].listingClassified =>
            /\ ~req[s].called
            /\ ~req[s].wrote
            /\ (req[s].pc = "returned" => req[s].ret = Null)

(***************************************************************************)
(* Claims about classifyListing.                                           *)
(***************************************************************************)

C7_FallbackOnEveryFailure ==
    \A s \in DistSlots :
        (/\ dcall[s].pc = "returned"
         /\ dcall[s].response # Null
         /\ dcall[s].response.outcome \in ApiFailures)
        => dcall[s].ret = HaversineEstimate(dcall[s].origin, dcall[s].destination)

\* C8: a getDistanceAndETA call that has issued its routing request
\* eventually returns to its caller, whether or not the service responds.
C8_ExternalCallReturns ==
    \A s \in DistSlots :
        (dcall[s].pc = "fetching") ~> (dcall[s].pc = "returned")

\* the listing ids of a sequence of match results
ListingIds(matches) == {matches[k].listingId : k \in 1..Len(matches)}

\* C3: no match returned by findMatchesForRequest refers to a listing whose
\* effective material (aiMaterialType if present, else materialType) differs
\* from the request's materialType.
C3_MaterialHardGate ==
    mcall.pc = "returned" =>
        \A id \in ListingIds(mcall.ret) :
            EffectiveMaterial(Listing(id)) = mcall.request.materialType

\* a call has returned matches scored by the function that gives every
\* listing the full score, from a pool holding another organisation's listing
\* whose declared material is the requested one and whose effective one is not
C3_Witness ==
    /\ mcall.pc = "returned"
    /\ mcall.ret # <<>>
    /\ \A k \in 1..Len(mcall.ret) : mcall.ret[k].scoredBy = "constant"
    /\ \E k \in 1..Len(activeListings) :
          /\ DeclaredMaterialCandidate(mcall.request, Listing(activeListings[k]))
          /\ EffectiveMaterial(Listing(activeListings[k]))
                 # mcall.request.materialType

C5_DistanceHardGate ==
    mcall.pc = "returned" =>
        \A id \in ListingIds(mcall.ret) :
            calculateDistanceHaversine(mcall.request.location,
                                       Listing(id).location)
                <= MAX_MATCH_DISTANCE_KM * 10

\* a call has returned matches, every one scored by the function that gives
\* every listing the full score and installed for good, and a candidate
\* past the material filter lay more than 200 km away
C5_Witness ==
    /\ mcall.pc = "returned"
    /\ mcall.ret # <<>>
    /\ currentScoringFunction = "constant"
    /\ swaps = 1
    /\ \A k \in 1..Len(mcall.matches) : mcall.matches[k].scoredBy = "constant"
    /\ \E k \in 1..Len(mcall.candidates) :
          /\ mcall.distances[k].distanceKm > MAX_MATCH_DISTANCE_KM * 10
          /\ mcall.candidates[k] \notin ListingIds(mcall.ret)

\* C6: findMatchesForRequest never fails on a candidate: it rejects only
\* when the listings could not be fetched.
C6_CandidateFailureExcludesOnlyIt ==
    mcall.pc = "rejected" => mcall.error = "FirestoreError"

\* C11: from the creation of the listing document on, handleSubmit never
\* reports a failure, and whatever the classification step came to (skipped
\* on the quota snapshot, listing not re-read, null result, fields not
\* persisted) it ends reporting success with the listing as submitted, its
\* classification fields absent or complete.
C11_ClassificationNeverFailsCreation ==
    listingDoc # Null =>
        /\ ingest.reported # "failure"
        /\ listingDoc.materialType = ingest.materialType
        /\ ingest.pc = "done" =>
              /\ ingest.reported = "success"
              /\ (listingDoc.ai # Null) <=> (ingest.step = "persisted")

\* the classifier was called and answered, the quota was spent, persisting
\* the fields failed, and the creation is reported as successful all the same
C11_Witness ==
    /\ ingest.pc = "done"
    /\ ingest.step = "persist_failed"
    /\ listingDoc # Null
    /\ listingDoc.ai = Null
    /\ ingest.reported = "success"

\* C12: a classifyWithAI call refused for exhausted quota (429) returns to
\* its caller something else than a call that failed for another reason
\* (function unreachable, 500).
C12_ExhaustionDistinguishable ==
    \A s, t \in Slots :
        (/\ req[s].pc = "returned" /\ req[s].status = 429
         /\ req[t].pc = "returned" /\ req[t].status \notin {200, 429})
        => req[s].ret # req[t].ret

\* C13: getAIQuotaInfo leaves the quota row as it is, and what it returns
\* satisfies remaining = max(0, max_count - count) and exhausted <=>
\* remaining = 0; when the row cannot be read it returns exhausted with
\* remaining 0.
C13_QuotaInspectionReadOnly ==
    [][(ingest.quotaFetch = "pending" /\ ingest'.quotaFetch # "pending") =>
          /\ quotaCount' = quotaCount
          /\ quotaMax' = quotaMax
          /\ aiQuota'.exhausted <=> (aiQuota'.remaining = 0)
          /\ ingest'.quotaFetch = "loaded" =>
                /\ aiQuota'.max = quotaMax
                /\ aiQuota'.remaining =
                       (IF quotaMax > quotaCount THEN quotaMax - quotaCount ELSE 0)
          /\ ingest'.quotaFetch = "unreadable" =>
                (aiQuota'.exhausted /\ aiQuota'.remaining = 0)]_vars

\* the quota was inspected with the counter at its maximum, classifier
\* calls having been made
C13_Witness ==
    /\ ingest.quotaFetch = "loaded"
    /\ ingest.pc = "idle"
    /\ aiQuota # Null
    /\ aiQuota.exhausted
    /\ vertexCalls > 0
    /\ quotaCount = quotaMax

ExpectedMatches(request, weights, minScore, pool, fn) ==
    LET Distance(id) ==
            calculateDistanceHaversine(request.location, Listing(id).location)
        Score(id) ==
            ApplyScoringFunction(fn, request, Listing(id), Distance(id), weights)
        Kept(id) ==
            /\ Listing(id).organisationId # request.organisationId
            /\ EffectiveMaterial(Listing(id)) = request.materialType
            /\ Distance(id) <= MAX_MATCH_DISTANCE_KM * 10
            /\ Score(id) >= minScore
        kept == SelectSeq(pool, Kept)
    IN  TopTen(SortByScoreDesc(
            [k \in 1..Len(kept) |->
                [listingId |-> kept[k], score |-> Score(kept[k]),
                 distanceKm |-> Distance(kept[k]),
                 co2SavedKg |-> calculateCO2Savings(Listing(kept[k]),
                                                    Distance(kept[k])),
                 scoredBy |-> fn]]))

\* C15: a findMatchesForRequest call during which one scoring function was
\* installed returns the sequence of matches fixed by its request, weights,
\* minScore, that function and the active listings: the distance cache, the
\* quota counter and the fate of the analytics events have no part in it.
C15_DeterministicMatching ==
    mcall.pc = "returned" =>
        \A fn \in ScoringFunctions :
            mcall.fns \subseteq {fn} =>
                mcall.ret = ExpectedMatches(mcall.request, mcall.weights,
                                            mcall.minScore, activeListings, fn)

\* a call returned several matches although an analytics event of it was
\* lost, with the quota used up and a routing result for one of its
\* candidates in the distance cache
C15_Witness ==
    /\ mcall.pc = "returned"
    /\ Len(mcall.ret) >= 2
    /\ mcall.logFailed
    /\ quotaCount = quotaMax
    /\ \E k \in 1..Len(mcall.ret) :
          getCacheKey(mcall.request.location,
                      Listing(mcall.ret[k].listingId).location)
              \in DOMAIN distanceCache

\* C16: a findMatchesForRequest call given a negative weight scores no
\* candidate with it: it holds no match and returns none.
C16_InvalidWeightsRejected ==
    (/\ mcall.weights # Null
     /\ \E f \in DOMAIN mcall.weights : mcall.weights[f] < 0)
    => (mcall.matches = <<>> /\ mcall.fns = {})

\* C17: a classifyWithAI call whose classifier answered with a label outside
\* the five material types returns no classification.
C17_InvalidLabelRejected ==
    \A s \in Slots :
        (/\ req[s].pc = "returned"
         /\ req[s].label # NoValue
         /\ req[s].label \notin MATERIAL_TYPES)
        => req[s].ret = Null

\* the sum of the weights, in hundredths
WeightSum(weights) ==
    weights.materialMatch + weights.quantityFit + weights.distance
        + weights.condition + weights.urgency

\* C18: with weights that are not negative and sum to about 1, the total
\* score defaultScoringFunction gives a request and a listing of positive
\* quantities lies between 0 and 1.
C18_ScoreWithinUnitInterval ==
    (/\ scoring.pc = "scored"
     /\ \A f \in DOMAIN scoring.weights : scoring.weights[f] >= 0
     /\ WeightSum(scoring.weights) \in 99..101)
    => (scoring.totalScore >= 0 /\ scoring.totalScore <= 100)

\* every factor is 1 and the weights sum to 1.01: the score is 1
C18_Witness ==
    /\ scoring.pc = "scored"
    /\ WeightSum(scoring.weights) = 101
    /\ scoring.request.quantityValue = scoring.listing.quantityValue
    /\ scoring.distanceKm = 0
    /\ scoring.listing.condition = "unused"
    /\ scoring.request.urgency = "high"
    /\ scoring.listing.aiMaterialType = NoValue
    /\ scoring.totalScore = 100

\* the composite score of a listing of the requested material within 200 km:
\* min(1, wM + wQ * quantityFit + wD * distanceScore + wC * condition
\* + wU * urgency) rounded to hundredths, the factors as fractions
\* <<numerator, denominator>>
CompositeScore(s) ==
    LET wanted == s.request.quantityValue
        offered == s.listing.quantityValue
        quantityFit == IF offered >= wanted
                       THEN IF 2 * wanted >= offered
                            THEN <<wanted, offered>> ELSE <<1, 2>>
                       ELSE <<offered, wanted>>
        distanceScore == IF s.distanceKm <= 1000
                         THEN <<1000 + (1000 - s.distanceKm), 2000>>
                         ELSE <<2000 - s.distanceKm, 2000>>
        condition == IF s.listing.condition = "unused" THEN 100
                     ELSE IF s.listing.condition = "slightly_used" THEN 80
                     ELSE 50
        urgency == IF s.request.urgency = "high" THEN 100
                   ELSE IF s.request.urgency = "medium" THEN 60 ELSE 20
        w == s.weights
        den == quantityFit[2] * distanceScore[2] * 100
        num == w.materialMatch * den
               + w.quantityFit * quantityFit[1] * distanceScore[2] * 100
               + w.distance * distanceScore[1] * quantityFit[2] * 100
               + w.condition * condition * quantityFit[2] * distanceScore[2]
               + w.urgency * urgency * quantityFit[2] * distanceScore[2]
        capped == IF num > 100 * den THEN 100 * den ELSE num
    IN  (2 * capped + den) \div (2 * den)

C21_CO2SavingsNonNegative ==
    carbon.pc = "estimated" =>
        /\ carbon.co2SavedKg \in Nat
        /\ NetSavingsPerTonne(carbon.listing.materialType, carbon.distanceKm) < 0
               => carbon.co2SavedKg = 0

\* an estimate for a quantity given in another unit than tonnes whose
\* transport emissions exceed the savings, and which came out as 0
C21_Witness ==
    /\ carbon.pc = "estimated"
    /\ carbon.listing.quantityUnit = "m3"
    /\ carbon.listing.materialType = "aggregates"
    /\ NetSavingsPerTonne("aggregates", carbon.distanceKm) < 0
    /\ carbon.co2SavedKg = 0

(***************************************************************************)
(* Claims about the batch distances.                                       *)
(***************************************************************************)
\* C22: getBatchDistances, and with it findMatchesForRequest, issues no
\* external distance request and neither reads nor writes the single-pair
\* distance cache: every candidate's distance is the haversine estimate,
\* also for a pair the cache holds another result for, and no step of a
\* match query changes the cache or starts a getDistanceAndETA fetch.
C22_BatchUsesHaversineOnly ==
    [][/\ mcall'.pc \in {"logging", "returned"} =>
             \A k \in 1..Len(mcall'.candidates) :
                mcall'.distances[k] =
                    HaversineEstimate(mcall'.request.location,
                                      Listing(mcall'.candidates[k]).location)
       /\ distanceCache' = distanceCache
       /\ dcall' = dcall
       /\ \A s \in DistSlots : ~dcall'[s].fetched]_vars

\* a match query over ten or more candidates returned while the cache held
\* a routed result, different from the estimate, for one of its pairs
C22_Witness ==
    /\ mcall.pc = "returned"
    /\ Len(mcall.candidates) >= 10
    /\ \E k \in 1..Len(mcall.candidates) :
          LET key == getCacheKey(mcall.request.location,
                                 Listing(mcall.candidates[k]).location)
          IN  /\ key \in DOMAIN distanceCache
              /\ distanceCache[key].distanceKm # mcall.distances[k].distanceKm

(***************************************************************************)
(* Claims about the distance cache.                                        *)
(***************************************************************************)
\* C23: once a getDistanceAndETA call has returned a result for a pair, every
\* later call whose coordinates round to the same key returns that result
\* without an external lookup, whatever useApi and the API's availability,
\* until clearDistanceCache is called: a call that finds its key in the cache
\* returns the entry without fetching, and no step other than
\* clearDistanceCache removes or replaces an entry.
C23_CachedResultPersists ==
    [][/\ \A s \in DistSlots :
             (/\ dcall[s].pc = "idle"
              /\ dcall'[s].pc # "idle"
              /\ getCacheKey(dcall'[s].origin, dcall'[s].destination)
                     \in DOMAIN distanceCache)
             => /\ dcall'[s].pc = "returned"
                /\ ~dcall'[s].fetched
                /\ dcall'[s].ret =
                       distanceCache[getCacheKey(dcall'[s].origin,
                                                 dcall'[s].destination)]
       /\ \/ distanceCache' = <<>>
          \/ \A key \in DOMAIN distanceCache :
                /\ key \in DOMAIN distanceCache'
                /\ distanceCache'[key] = distanceCache[key]]_vars

\* C26: cache writes are idempotent per key: a getDistanceAndETA call that
\* writes under a key the cache already holds writes the value it holds, so
\* the order of concurrent writers does not change what readers observe.
C26_CacheWritesIdempotent ==
    [][\A key \in (DOMAIN distanceCache) \cap (DOMAIN distanceCache') :
          distanceCache'[key] = distanceCache[key]]_vars

(***************************************************************************)
(* Claims about the heuristic classifier.                                  *)
(***************************************************************************)
\* the confidence the bands give for n matched keywords of the winner
ExpectedConfidence(n, winnerIsDeclared) ==
    LET band == IF n = 0 THEN 30
                ELSE IF n = 1 THEN 50
                ELSE IF n = 2 THEN 70
                ELSE 85
    IN  IF n > 0 /\ winnerIsDeclared
        THEN (IF band + 10 > 90 THEN 90 ELSE band + 10)
        ELSE band

TopCategories(text) ==
    {m \in MATERIAL_TYPES :
        \A other \in MATERIAL_TYPES :
            KeywordScore(m, text) >= KeywordScore(other, text)}

\* C25: the heuristic classifier returns the category with the highest
\* keyword score; among several with the highest positive score it returns
\* the first in the order steel_beam, rebar, concrete, aggregates, timber,
\* whatever the declared category; when no keyword matches it returns the
\* declared category.
C25_HighestScoreFixedPriority ==
    (hcall.pc \in {"logging", "returned"} /\ hcall.ret # Null) =>
        LET text == hcall.listing.text
            top == TopCategories(text)
            winner == hcall.ret.aiMaterialType
        IN  IF \A m \in MATERIAL_TYPES : KeywordScore(m, text) = 0
            THEN winner = hcall.listing.materialType
            ELSE /\ winner \in top
                 /\ \A i, j \in 1..Len(MaterialOrder) :
                       (MaterialOrder[i] \in top /\ MaterialOrder[j] = winner)
                       => j <= i

\* two categories tie for the highest score, the declared one is the later
\* of them, and the earlier one was returned
C25_Witness ==
    /\ hcall.pc = "returned"
    /\ hcall.ret # Null
    /\ Cardinality(TopCategories(hcall.listing.text)) = 2
    /\ hcall.listing.materialType \in TopCategories(hcall.listing.text)
    /\ KeywordScore(hcall.listing.materialType, hcall.listing.text) > 0
    /\ hcall.ret.aiMaterialType # hcall.listing.materialType

(***************************************************************************)
(* Claims about the stored quota counter.                                  *)
(***************************************************************************)
\* C27: under any interleaving of concurrent classification requests the
\* stored counter satisfies 0 <= count <= max_count, and every request that
\* writes it writes its read count + 1, the read count being below max_count.
C27_CounterWithinBounds ==
    /\ quotaCount \in 0..quotaMax
    /\ \A s \in Slots :
          req[s].pc \in {"checked", "tokened", "classified", "counted"}
              => req[s].readCount < quotaMax

\* the counter stands at max_count after more classifier calls than
\* max_count, two requests having written from the same read count
C27_Witness ==
    /\ quotaCount = quotaMax
    /\ vertexCalls > quotaMax
    /\ \E s, u \in Slots :
          /\ s # u
          /\ req[s].wrote
          /\ req[u].wrote
          /\ req[s].readCount = req[u].readCount

\* C28: a classification request whose external call fails (token exchange,
\* non-2xx from the classifier, no JSON in its answer) does not write the
\* stored counter: the counter changes only in the update step of a request
\* that has obtained a classification result, and a request answered 500
\* has written nothing.
C28_FailedCallsNotCounted ==
    [][/\ \A s \in Slots :
             /\ req'[s].status = 500 => ~req'[s].wrote
             /\ req'[s].wrote => (req'[s].called /\ req'[s].label # NoValue)
       /\ quotaCount' # quotaCount =>
             \E s \in Slots :
                /\ req[s].pc = "classified"
                /\ req'[s].pc = "counted"
                /\ quotaCount' = req[s].readCount + 1]_vars

\* a request whose classifier call failed has returned null, and the counter
\* stands where the request read it
C28_Witness ==
    \E s \in Slots :
        /\ req[s].pc = "returned"
        /\ req[s].status = 500
        /\ req[s].called
        /\ req[s].ret = Null
        /\ quotaCount = req[s].readCount
        /\ quotaCount > 0

(***************************************************************************)
(* Claims about the match query under concurrency.                         *)
(***************************************************************************)
\* C29: within one findMatchesForRequest invocation every candidate is scored
\* by the same scoring function, also when setScoringFunction or
\* resetScoringFunction runs while the invocation is suspended at an await.
C29_OneScoringFunctionPerInvocation ==
    Cardinality(mcall.fns) <= 1

\* C30: every element getMatchesWithListings returns carries a defined
\* listing, the one the match was scored against, also when listings leave
\* the active status between the pool read of findMatchesForRequest and the
\* second pool read.
C30_HydratedListingDefined ==
    hydrate.pc = "returned" =>
        \A k \in 1..Len(hydrate.ret) :
            /\ hydrate.ret[k].listing # NoListing
            /\ hydrate.ret[k].listing = hydrate.ret[k].listingId
====
